---- MODULE Spec2Model ----
(***************************************************************************)
(* Verification model of the financial risk assessor's decision engine:    *)
(* the tools of the analyze_risk_tolerance and generate_recommendations    *)
(* sub-agents, run over the shared session state by the ParallelAgent      *)
(* AssessRiskProfile and the SequentialAgent GenerateRecommendations, and  *)
(* the tools of collect_investment_data with the two before-agent          *)
(* callbacks that keep the engine behind the confirmed collection.         *)
(*                                                                         *)
(* Conventions.  A Python value that may be missing (a key of the session  *)
(* state, a key of a dict, a None) is a sequence of length 0 or 1:         *)
(* None == <<>>, Some(v) == <<v>>.  Money and percentages are integers:    *)
(* amounts in whole currency units, the analyzer's percentages in          *)
(* hundredths of a percent (round(x, 2)), the allocation plan's in tenths. *)
(***************************************************************************)
EXTENDS Integers, Sequences, FiniteSets, TLC

VARIABLES
    state,   \* the session state (tool_context.state), one option per key
    rets,    \* what each stage's tool call returned in the current run
    ran,     \* the sub-agents of AssessRiskProfile that have run in this run
    seen,    \* the sub-agents that had run when categorize_risk_level ran
    pc,      \* position of the pipeline
    last,    \* the stage whose tool call returned last
    run,     \* "first", or "again" once the root agent runs again on the session
    prev,    \* results and engine keys at the end of the previous run
    call     \* the last call of a collection tool: its arguments and its result

vars == <<state, rets, ran, seen, pc, last, run, prev, call>>

-----------------------------------------------------------------------------
(* Bounds of the model *)

MaxInv == 2        \* longest investment list drawn from a pool of entries
MaxTypes == 32     \* largest number of distinct asset types in one list

-----------------------------------------------------------------------------
(* Optional values and small helpers *)

None == <<>>
Some(v) == <<v>>
IsSome(o) == Len(o) = 1
\* dict.get(key, default)
Get(o, default) == IF IsSome(o) THEN o[1] ELSE default

Min(a, b) == IF a <= b THEN a ELSE b
Max(a, b) == IF a >= b THEN a ELSE b

\* str.lower() on the risk_appetite strings the model draws
Lower(s) ==
    CASE s = "Aggressive" -> "aggressive"
      [] s = "CONSERVATIVE" -> "conservative"
      [] OTHER -> s

\* round(num / den): Python rounds an exact tie to the even neighbour
RoundHalfEven(num, den) ==
    LET q == num \div den
        r == num % den
    IN  IF 2 * r < den THEN q
        ELSE IF 2 * r > den THEN q + 1
        ELSE IF q % 2 = 0 THEN q ELSE q + 1

-----------------------------------------------------------------------------
(* Risk Scorer: calculate_risk_score *)

\* state.get("user_profile", {}).get(field, default); a collected profile
\* (collect_user_info) holds all six fields
Field(st, field, default) ==
    IF IsSome(st.user_profile) THEN st.user_profile[1][field] ELSE default

BaseScore(self_described_risk) ==
    CASE self_described_risk = "conservative" -> 2
      [] self_described_risk = "moderate" -> 5
      [] self_described_risk = "aggressive" -> 8
      [] OTHER -> 5

AgeFactor(age) ==
    IF age < 30 THEN 2
    ELSE IF age < 40 THEN 1
    ELSE IF age < 50 THEN 0
    ELSE -1

\* mutant: the "- 2" of the income factor is dropped
IncomeFactorNoOffset(income, expenses) ==
    Min(2, Max(0, IF expenses > 0 THEN income \div (12 * expenses) ELSE 1))

\* int(income / 12 / expenses - 2), capped to 0..2; the ratio is 1 when
\* expenses are 0.  For integer inputs int(x - 2) >= k iff income >= 12*e*(k+2).
IncomeFactor(income, expenses) ==
    LET truncated == IF expenses > 0 THEN (income \div (12 * expenses)) - 2
                     ELSE 1 - 2
    IN  Min(2, Max(0, truncated))
\* mutant: the tiers start at 6 and at 12 months
SavingsFactorInclusive(savings, expenses) ==
    IF expenses > 0 /\ savings >= 12 * expenses THEN 2
    ELSE IF expenses > 0 /\ savings >= 6 * expenses THEN 1
    ELSE 0

\* savings_months = savings / expenses (0 when expenses are 0)
SavingsFactor(savings, expenses) ==
    IF expenses > 0 /\ savings > 12 * expenses THEN 2
    ELSE IF expenses > 0 /\ savings > 6 * expenses THEN 1
    ELSE 0

\* mutant: the upper limit of the clamp is dropped
ClampScoreLowerOnly(raw) == Max(1, raw)

\* max(1, min(10, final_score))
ClampScore(raw) == Max(1, Min(10, raw))

ScoreBand(score) ==
    IF score <= 3 THEN "Conservative"
    ELSE IF score <= 6 THEN "Moderate"
    ELSE "Aggressive"

\* The tool: the new session state and the returned dict
calculate_risk_score(st) ==
    LET age == Field(st, "age", 0)
        income == Field(st, "annual_income", 0)
        expenses == Field(st, "monthly_expenses", 0)
        savings == Field(st, "total_savings", 0)
        self_described_risk == Lower(Field(st, "risk_appetite", "moderate"))
        age_factor == AgeFactor(age)
        income_factor == IncomeFactor(income, expenses)
        savings_factor == SavingsFactor(savings, expenses)
        final_score == ClampScore(BaseScore(self_described_risk) + age_factor
                                  + income_factor + savings_factor)
    IN  [state |-> [st EXCEPT !.risk_score = Some(final_score)],
         raised |-> FALSE,
         ret |-> [risk_score |-> final_score,
                  risk_category |-> ScoreBand(final_score),
                  contributing_factors |->
                      [self_described_risk |-> self_described_risk,
                       age_factor |-> age_factor,
                       income_factor |-> income_factor,
                       savings_factor |-> savings_factor]]]

-----------------------------------------------------------------------------
(* Portfolio Analyzer: run_portfolio_analysis *)

(* An entry of state["investments"].  isDict: isinstance(inv, dict).        *)
(* asset_type: inv.get("asset_type").  details: the "details" key, whose    *)
(* value has kind "dict", "null" (None) or "str" (a string).  An amount is  *)
(* [tag, n]: a number n, a numeric string, None ("null") or other text.     *)
Num(n) == [tag |-> "num", n |-> n]
NumStr(n) == [tag |-> "numstr", n |-> n]
Null == [tag |-> "null", n |-> 0]
Text == [tag |-> "text", n |-> 0]

Details(name, amount, current_value) ==
    [kind |-> "dict", name |-> name, amount |-> amount, current_value |-> current_value]
NullDetails == [kind |-> "null", name |-> None, amount |-> None, current_value |-> None]
StrDetails == [kind |-> "str", name |-> None, amount |-> None, current_value |-> None]

\* an investment as record_asset_type and record_asset_details build it
Recorded(asset_type, name, amount, current_value) ==
    [isDict |-> TRUE, asset_type |-> Some(asset_type),
     details |-> Some(Details(Some(name), Some(Num(amount)), Some(current_value))),
     amount |-> None]

\* an investment with the fields at the top level
Flat(asset_type, amount) ==
    [isDict |-> TRUE, asset_type |-> asset_type, details |-> None, amount |-> amount]

NotADict == [isDict |-> FALSE, asset_type |-> None, details |-> None, amount |-> None]

\* float(v): raises TypeError on None and ValueError on non-numeric text
FloatRaises(v) == v.tag \in {"null", "text"}
Float(v) == v.n

\* mutant: the loop counts details["current_value"] where the entry has one
ResolveEntryByCurrentValue(inv) ==
    IF ~inv.isDict
    THEN [raised |-> FALSE, asset_type |-> "Unknown", amount |-> 0]
    ELSE
      LET hasDetails == IsSome(inv.details)
          d == Get(inv.details, NullDetails)
          nameRaises == inv.asset_type = None /\ hasDetails /\ d.kind # "dict"
          fromDetails == IF inv.asset_type = None /\ hasDetails
                         THEN d.name ELSE inv.asset_type
          asset_type == Get(fromDetails, "Unknown")
          inRaises == hasDetails /\ d.kind = "null"
          inDetails == hasDetails /\ d.kind = "dict" /\ IsSome(d.amount)
          given == IF inDetails THEN d.amount ELSE inv.amount
          value == IF inDetails /\ IsSome(d.current_value)
                   THEN Num(d.current_value[1]) ELSE Get(given, Num(0))
      IN  IF nameRaises \/ inRaises \/ FloatRaises(value)
          THEN [raised |-> TRUE, asset_type |-> asset_type, amount |-> 0]
          ELSE [raised |-> FALSE, asset_type |-> asset_type, amount |-> Float(value)]

\* One pass of the loop body: the asset type and amount an entry contributes,
\* or raised when an exception leaves the loop
ResolveEntry(inv) ==
    IF ~inv.isDict
    THEN [raised |-> FALSE, asset_type |-> "Unknown", amount |-> 0]
    ELSE
      LET hasDetails == IsSome(inv.details)
          d == Get(inv.details, NullDetails)
          \* inv.get("details", {}).get("name", "Unknown") needs a dict
          nameRaises == inv.asset_type = None /\ hasDetails /\ d.kind # "dict"
          fromDetails == IF inv.asset_type = None /\ hasDetails
                         THEN d.name ELSE inv.asset_type
          asset_type == Get(fromDetails, "Unknown")
          \* "amount" in inv["details"] raises TypeError on None
          inRaises == hasDetails /\ d.kind = "null"
          inDetails == hasDetails /\ d.kind = "dict" /\ IsSome(d.amount)
          given == IF inDetails THEN d.amount ELSE inv.amount
          value == Get(given, Num(0))
      IN  IF nameRaises \/ inRaises \/ FloatRaises(value)
          THEN [raised |-> TRUE, asset_type |-> asset_type, amount |-> 0]
          ELSE [raised |-> FALSE, asset_type |-> asset_type, amount |-> Float(value)]

EmptyMap == [t \in {} |-> 0]

(* The for loop over the investments.  An exception in any pass leaves the  *)
(* loop before anything is stored, so the loop raises iff some entry does;  *)
(* otherwise the dicts hold, per resolved asset type, the number of entries *)
(* and the sum of their amounts.                                            *)
Resolved(investments) == [i \in 1..Len(investments) |-> ResolveEntry(investments[i])]

\* sum of the amounts of the first n entries whose asset type is in types
RECURSIVE SumAmounts(_, _, _)
SumAmounts(resolved, n, types) ==
    IF n = 0 THEN 0
    ELSE SumAmounts(resolved, n - 1, types)
         + (IF resolved[n].asset_type \in types THEN resolved[n].amount ELSE 0)

Tally(investments) ==
    LET resolved == Resolved(investments)
        n == Len(investments)
        types == {resolved[i].asset_type : i \in 1..n}
        first == {i \in 1..n : \A j \in 1..(i - 1) : resolved[j].asset_type # resolved[i].asset_type}
    IN  [raised |-> \E i \in 1..n : resolved[i].raised,
         asset_counts |->
             [t \in types |-> Cardinality({i \in 1..n : resolved[i].asset_type = t})],
         asset_values |-> [t \in types |-> SumAmounts(resolved, n, {t})],
         \* the keys in the order the loop inserts them
         order |-> [k \in 1..Cardinality(first) |->
                       resolved[CHOOSE i \in first :
                                   Cardinality({j \in first : j < i}) = k - 1].asset_type],
         total_value |-> SumAmounts(resolved, n, types)]

\* mutant: the percentage is cut after two decimals instead of rounded
PercentTruncated(value, total_value) == (value * 10000) \div total_value

\* round((value / total_value) * 100, 2), in hundredths of a percent
Percent(value, total_value) == RoundHalfEven(value * 10000, total_value)

AssetAllocation(asset_values, total_value) ==
    IF total_value > 0
    THEN [t \in DOMAIN asset_values |-> Percent(asset_values[t], total_value)]
    ELSE EmptyMap

\* mutant: two points per asset type without the cap
DiversityScoreUncapped(unique_assets) == unique_assets * 2

\* min(10, unique_assets * 2)
DiversityScore(unique_assets) == Min(10, unique_assets * 2)

\* mutant: a share of exactly 50 counts as high
HighConcentrationAssetsFromHalf(asset_allocation, order) ==
    SelectSeq(order, LAMBDA t : t \in DOMAIN asset_allocation /\ asset_allocation[t] >= 5000)

\* the asset types above 50 percent, in the allocation dict's order
HighConcentrationAssets(asset_allocation, order) ==
    SelectSeq(order, LAMBDA t : t \in DOMAIN asset_allocation /\ asset_allocation[t] > 5000)

\* "balanced", or "concentrated in " followed by the comma-joined types
RiskConcentration(high_concentration_assets) ==
    IF high_concentration_assets # <<>>
    THEN [text |-> "concentrated in", assets |-> high_concentration_assets]
    ELSE [text |-> "balanced", assets |-> <<>>]

NoData ==
    [status |-> "no_data",
     diversity_score |-> 0,
     asset_allocation |-> EmptyMap,
     risk_concentration |-> [text |-> "unknown", assets |-> <<>>]]

\* mutant: the analyzer empties the list it has analyzed
run_portfolio_analysis_consuming(st) ==
    LET investments == Get(st.investments, <<>>)
        t == Tally(investments)
        asset_allocation == AssetAllocation(t.asset_values, t.total_value)
        unique_assets == Cardinality(DOMAIN t.asset_counts)
        portfolio_analysis ==
            [diversity_score |-> DiversityScore(unique_assets),
             asset_count |-> Len(investments),
             unique_asset_types |-> unique_assets,
             asset_allocation |-> asset_allocation,
             risk_concentration |->
                 RiskConcentration(HighConcentrationAssets(asset_allocation, t.order))]
    IN  IF investments = <<>>
        THEN [state |-> st, raised |-> FALSE, ret |-> NoData]
        ELSE IF t.raised
        THEN [state |-> st, raised |-> TRUE, ret |-> NoData]
        ELSE [state |-> [st EXCEPT !.portfolio_analysis = Some(portfolio_analysis),
                                   !.investments = Some(<<>>)],
              raised |-> FALSE,
              ret |-> [status |-> "success"] @@ portfolio_analysis]

\* The tool: the new session state and the returned dict, or raised
run_portfolio_analysis(st) ==
    LET investments == Get(st.investments, <<>>)
        t == Tally(investments)
        asset_allocation == AssetAllocation(t.asset_values, t.total_value)
        unique_assets == Cardinality(DOMAIN t.asset_counts)
        portfolio_analysis ==
            [diversity_score |-> DiversityScore(unique_assets),
             asset_count |-> Len(investments),
             unique_asset_types |-> unique_assets,
             asset_allocation |-> asset_allocation,
             risk_concentration |->
                 RiskConcentration(HighConcentrationAssets(asset_allocation, t.order))]
    IN  IF investments = <<>>
        THEN [state |-> st, raised |-> FALSE, ret |-> NoData]
        ELSE IF t.raised
        THEN [state |-> st, raised |-> TRUE, ret |-> NoData]
        ELSE [state |-> [st EXCEPT !.portfolio_analysis = Some(portfolio_analysis)],
              raised |-> FALSE,
              ret |-> [status |-> "success"] @@ portfolio_analysis]

-----------------------------------------------------------------------------
(* Risk Categorizer: categorize_risk_level *)

\* portfolio_analysis.get("diversity_score", 5) and .get("risk_concentration", "unknown")
NoAnalysis ==
    [diversity_score |-> 5, risk_concentration |-> [text |-> "unknown", assets |-> <<>>]]

\* "concentrated" in risk_concentration
MentionsConcentrated(risk_concentration) == risk_concentration.text = "concentrated in"

StepDown(category) ==
    IF category = "Aggressive" THEN "Moderate" ELSE "Conservative"

\* mutant: every adjustment that fires moves the category one step down
FinalCategoryPerFactor(base_category, low, high) ==
    LET afterLow == IF low THEN StepDown(base_category) ELSE base_category
    IN  IF high THEN StepDown(afterLow) ELSE afterLow

\* the category after the two adjustments: each moves an Aggressive base to
\* Moderate and leaves any other base where it is
FinalCategory(base_category, low, high) ==
    IF high THEN "Moderate"
    ELSE IF low /\ base_category = "Aggressive" THEN "Moderate"
    ELSE base_category

\* The body of the tool, from the list adjustment_factors starts as
Categorize(st, initial_factors) ==
    LET risk_score == Get(st.risk_score, 5)
        portfolio_analysis == Get(st.portfolio_analysis, NoAnalysis)
        base_category == ScoreBand(risk_score)
        diversity_score == portfolio_analysis.diversity_score
        risk_concentration == portfolio_analysis.risk_concentration
        low == diversity_score < 4 /\ base_category # "Conservative"
        high == MentionsConcentrated(risk_concentration) /\ base_category = "Aggressive"
        adjustment_factors ==
            initial_factors
            \o (IF low THEN <<"low portfolio diversity">> ELSE <<>>)
            \o (IF high THEN <<"high concentration risk">> ELSE <<>>)
        risk_category ==
            [category |-> FinalCategory(base_category, low, high),
             base_category |-> base_category,
             adjustment_factors |-> adjustment_factors]
    IN  [state |-> [st EXCEPT !.risk_category = Some(risk_category)],
         raised |-> FALSE,
         ret |-> risk_category]

\* mutant: the list starts from the factors the previous call left in the state
categorize_risk_level_accumulating(st) ==
    Categorize(st, IF IsSome(st.risk_category)
                   THEN st.risk_category[1].adjustment_factors ELSE <<>>)

\* The tool: adjustment_factors = [] at the start of every call
categorize_risk_level(st) == Categorize(st, <<>>)

-----------------------------------------------------------------------------
(* Allocation Recommender: suggest_asset_allocation (percentages in tenths) *)

Alloc(equities, fixed_income, cash, alternative) ==
    [Equities |-> equities, FixedIncome |-> fixed_income, Cash |-> cash,
     AlternativeInvestments |-> alternative]

\* allocations.get(risk_category, allocations["Moderate"])
BaseAllocation(risk_category) ==
    CASE risk_category = "Conservative" -> Alloc(300, 500, 150, 50)
      [] risk_category = "Aggressive" -> Alloc(700, 200, 50, 50)
      [] OTHER -> Alloc(500, 350, 100, 50)

\* mutant: only 20% of the equity shift reaches Cash
AdjustForAgeLossy(base, age) ==
    IF age > 60
    THEN LET equity_shift == Min(150, (base.Equities * 2) \div 10)
         IN  Alloc(base.Equities - equity_shift,
                   base.FixedIncome + (equity_shift * 7) \div 10,
                   base.Cash + (equity_shift * 2) \div 10,
                   base.AlternativeInvestments)
    ELSE IF age < 30
    THEN LET fixed_income_shift == Min(100, (base.FixedIncome * 2) \div 10)
         IN  Alloc(base.Equities + fixed_income_shift,
                   base.FixedIncome - fixed_income_shift,
                   base.Cash,
                   base.AlternativeInvestments)
    ELSE base

\* mutant: the adjustments start at 60 and at 30
AdjustForAgeInclusive(base, age) ==
    IF age >= 60
    THEN LET equity_shift == Min(150, (base.Equities * 2) \div 10)
         IN  Alloc(base.Equities - equity_shift,
                   base.FixedIncome + (equity_shift * 7) \div 10,
                   base.Cash + (equity_shift * 3) \div 10,
                   base.AlternativeInvestments)
    ELSE IF age <= 30
    THEN LET fixed_income_shift == Min(100, (base.FixedIncome * 2) \div 10)
         IN  Alloc(base.Equities + fixed_income_shift,
                   base.FixedIncome - fixed_income_shift,
                   base.Cash,
                   base.AlternativeInvestments)
    ELSE base

\* the age adjustment; 0.2, 0.7 and 0.3 of the amounts of the table are whole
\* tenths, the binary rounding of the products (below 1e-13) is left out
AdjustForAge(base, age) ==
    IF age > 60
    THEN LET equity_shift == Min(150, (base.Equities * 2) \div 10)
         IN  Alloc(base.Equities - equity_shift,
                   base.FixedIncome + (equity_shift * 7) \div 10,
                   base.Cash + (equity_shift * 3) \div 10,
                   base.AlternativeInvestments)
    ELSE IF age < 30
    THEN LET fixed_income_shift == Min(100, (base.FixedIncome * 2) \div 10)
         IN  Alloc(base.Equities + fixed_income_shift,
                   base.FixedIncome - fixed_income_shift,
                   base.Cash,
                   base.AlternativeInvestments)
    ELSE base

\* round(total_equity * fraction, 1) with the fraction in hundredths.  A
\* decimal tie is exact in binary only for the fractions 0.25 and 0.5 (rounded
\* to even); the double nearest 0.15 and 0.7 lies below the decimal (the
\* product rounds down), the double nearest 0.1, 0.2 and 0.4 above it.
RoundTenth(total_equity, fraction) ==
    LET num == total_equity * fraction
        q == num \div 100
        r == num % 100
    IN  IF 2 * r < 100 THEN q
        ELSE IF 2 * r > 100 THEN q + 1
        ELSE IF fraction \in {0, 25, 50} THEN (IF q % 2 = 0 THEN q ELSE q + 1)
        ELSE IF fraction \in {15, 70} THEN q
        ELSE q + 1

Breakdown(total_equity, large, mid, small, international) ==
    [LargeCap |-> RoundTenth(total_equity, large),
     MidCap |-> RoundTenth(total_equity, mid),
     SmallCap |-> RoundTenth(total_equity, small),
     International |-> RoundTenth(total_equity, international)]

EquityAllocation(risk_category, total_equity) ==
    IF risk_category = "Conservative" THEN Breakdown(total_equity, 70, 20, 0, 10)
    ELSE IF risk_category = "Moderate" THEN Breakdown(total_equity, 50, 25, 10, 15)
    ELSE Breakdown(total_equity, 40, 25, 15, 20)

\* state.get("risk_category", {}).get("category", "Moderate")
CategoryOf(st) ==
    IF IsSome(st.risk_category) THEN st.risk_category[1].category ELSE "Moderate"

\* The tool: the new session state and the returned dict
suggest_asset_allocation(st) ==
    LET risk_category == CategoryOf(st)
        age == Field(st, "age", 40)
        adjusted_allocation == AdjustForAge(BaseAllocation(risk_category), age)
        equity_allocation == EquityAllocation(risk_category, adjusted_allocation.Equities)
        suggested == [main_allocation |-> adjusted_allocation,
                      equity_breakdown |-> equity_allocation]
    IN  [state |-> [st EXCEPT !.suggested_allocation = Some(suggested)],
         raised |-> FALSE,
         ret |-> [status |-> "success",
                  risk_category |-> risk_category,
                  main_allocation |-> adjusted_allocation,
                  equity_breakdown |-> equity_allocation,
                  age_adjusted |-> age # 40]]

-----------------------------------------------------------------------------
(* Horizon classifier: determine_time_horizon.  A text is a sequence of     *)
(* one-character strings.                                                   *)

UpperCase == <<"A", "B", "C", "D", "E", "F", "G", "H", "I", "J", "K", "L", "M",
               "N", "O", "P", "Q", "R", "S", "T", "U", "V", "W", "X", "Y", "Z">>
LowerCase == <<"a", "b", "c", "d", "e", "f", "g", "h", "i", "j", "k", "l", "m",
               "n", "o", "p", "q", "r", "s", "t", "u", "v", "w", "x", "y", "z">>

LowerChar(c) ==
    IF \E i \in 1..Len(UpperCase) : UpperCase[i] = c
    THEN LowerCase[CHOOSE i \in 1..Len(UpperCase) : UpperCase[i] = c]
    ELSE c

\* goals.lower()
LowerText(text) == [i \in 1..Len(text) |-> LowerChar(text[i])]

\* keyword in text
Contains(text, keyword) ==
    \E i \in 0..(Len(text) - Len(keyword)) :
        \A j \in 1..Len(keyword) : text[i + j] = keyword[j]

\* mutant: "wedding" and "2 year" are no short-term keywords
ShortTermKeywordsFewer ==
    {<<"e", "m", "e", "r", "g", "e", "n", "c", "y">>,
     <<"t", "r", "a", "v", "e", "l">>,
     <<"c", "a", "r">>,
     <<"1", " ", "y", "e", "a", "r">>,
     <<"s", "h", "o", "r", "t">>}

ShortTermKeywords ==
    {<<"e", "m", "e", "r", "g", "e", "n", "c", "y">>,
     <<"t", "r", "a", "v", "e", "l">>,
     <<"w", "e", "d", "d", "i", "n", "g">>,
     <<"c", "a", "r">>,
     <<"1", " ", "y", "e", "a", "r">>,
     <<"2", " ", "y", "e", "a", "r">>,
     <<"s", "h", "o", "r", "t">>}

LongTermKeywords ==
    {<<"r", "e", "t", "i", "r", "e", "m", "e", "n", "t">>,
     <<"c", "h", "i", "l", "d", " ", "e", "d", "u", "c", "a", "t", "i", "o", "n">>,
     <<"p", "r", "o", "p", "e", "r", "t", "y">>,
     <<"h", "o", "u", "s", "e">>,
     <<"l", "o", "n", "g">>,
     <<"1", "0", " ", "y", "e", "a", "r">>,
     <<"1", "5", " ", "y", "e", "a", "r">>}

\* mutant: the short label is written without the space
determine_time_horizon_unspaced(goals, age) ==
    LET goals_lower == LowerText(goals)
    IN  IF \E keyword \in ShortTermKeywords : Contains(goals_lower, keyword)
        THEN "<3 Years"
        ELSE IF \E keyword \in LongTermKeywords : Contains(goals_lower, keyword)
        THEN "7+ Years"
        ELSE "3-7 Years"

\* mutant: the long-term keywords are looked for first
determine_time_horizon_long_first(goals, age) ==
    LET goals_lower == LowerText(goals)
    IN  IF \E keyword \in LongTermKeywords : Contains(goals_lower, keyword)
        THEN "7+ Years"
        ELSE IF \E keyword \in ShortTermKeywords : Contains(goals_lower, keyword)
        THEN "< 3 Years"
        ELSE "3-7 Years"

determine_time_horizon(goals, age) ==
    LET goals_lower == LowerText(goals)
    IN  IF \E keyword \in ShortTermKeywords : Contains(goals_lower, keyword)
        THEN "< 3 Years"
        ELSE IF \E keyword \in LongTermKeywords : Contains(goals_lower, keyword)
        THEN "7+ Years"
        ELSE IF age > 55 THEN "3-7 Years"
        ELSE "3-7 Years"

-----------------------------------------------------------------------------
(* Decision Matrix Engine: get_comprehensive_investment_recommendations *)

\* recommendations_matrix[risk_category][time_horizon][lumpsum_key]: the primary
\* strategy and the products (name, allocation, fund type of the nested fund list)
\* mutant: the allocation is cut to a multiple of ten
PCutToTens(name, allocation, fund_type) ==
    [name |-> name, allocation |-> allocation - (allocation % 10), fund_type |-> fund_type]

P(name, allocation, fund_type) ==
    [name |-> name, allocation |-> allocation, fund_type |-> fund_type]

recommendations_matrix ==
       <<"Conservative", "< 3 Years", "lumpsum_yes">> :>
         [primary |-> "FD (Lumpsum)",
          products |-> <<P("Fixed Deposits", 70, Some("FD")),
                        P("Liquid Funds", 20, None),
                        P("Ultra Short-term Funds", 10, None)>>]
    @@ <<"Conservative", "< 3 Years", "lumpsum_no">> :>
         [primary |-> "FD (SIP if possible)",
          products |-> <<P("Monthly FD SIP", 60, Some("FD")),
                        P("Liquid Fund SIP", 30, None),
                        P("Savings Account", 10, None)>>]
    @@ <<"Conservative", "3-7 Years", "lumpsum_yes">> :>
         [primary |-> "FD + Short-term Debt MF (Lumpsum + SIP)",
          products |-> <<P("Fixed Deposits", 40, Some("FD")),
                        P("Short-term Debt Mutual Funds", 35, Some("Short-term Debt MF")),
                        P("Conservative Hybrid Funds", 20, Some("Conservative Hybrid MF")),
                        P("Liquid Funds", 5, None)>>]
    @@ <<"Conservative", "3-7 Years", "lumpsum_no">> :>
         [primary |-> "SIP in Short-term Debt / Conservative Hybrid MF",
          products |-> <<P("Short-term Debt Fund SIP", 50, Some("Short-term Debt MF")),
                        P("Conservative Hybrid Fund SIP", 30, Some("Conservative Hybrid MF")),
                        P("Monthly FD", 20, Some("FD"))>>]
    @@ <<"Conservative", "7+ Years", "lumpsum_yes">> :>
         [primary |-> "FD + Conservative Hybrid MF (Lumpsum + SIP)",
          products |-> <<P("Conservative Hybrid Mutual Funds", 45, Some("Conservative Hybrid MF")),
                        P("ELSS (Tax Saving)", 25, None),
                        P("Fixed Deposits", 20, Some("FD")),
                        P("PPF/EPF", 10, None)>>]
    @@ <<"Conservative", "7+ Years", "lumpsum_no">> :>
         [primary |-> "SIP in Debt Hybrid / Conservative Hybrid MF",
          products |-> <<P("Conservative Hybrid Fund SIP", 50, Some("Conservative Hybrid MF")),
                        P("ELSS SIP", 30, None),
                        P("PPF", 20, None)>>]
    @@ <<"Moderate", "< 3 Years", "lumpsum_yes">> :>
         [primary |-> "FD + Arbitrage / Low Duration Debt MF (Lumpsum)",
          products |-> <<P("Fixed Deposits", 50, Some("FD")),
                        P("Arbitrage Funds", 30, Some("Arbitrage / Low Duration Debt MF")),
                        P("Low Duration Debt Funds", 15, None),
                        P("Liquid Funds", 5, None)>>]
    @@ <<"Moderate", "< 3 Years", "lumpsum_no">> :>
         [primary |-> "FD only, avoid equity SIP <3yrs",
          products |-> <<P("Monthly FD", 70, Some("FD")),
                        P("Ultra Short-term Fund SIP", 25, None),
                        P("Liquid Fund", 5, None)>>]
    @@ <<"Moderate", "3-7 Years", "lumpsum_yes">> :>
         [primary |-> "Balanced Advantage MF + ELSS + FD (Lumpsum + SIP)",
          products |-> <<P("Balanced Advantage Funds", 40, Some("Balanced Advantage MF")),
                        P("ELSS Mutual Funds", 25, Some("ELSS")),
                        P("Fixed Deposits", 20, Some("FD")),
                        P("Medium Duration Debt Funds", 15, None)>>]
    @@ <<"Moderate", "3-7 Years", "lumpsum_no">> :>
         [primary |-> "SIP in Balanced Advantage, Hybrid MF + ELSS",
          products |-> <<P("Balanced Advantage Fund SIP", 45, Some("Balanced Advantage MF")),
                        P("ELSS SIP", 30, Some("ELSS")),
                        P("Hybrid Fund SIP", 25, None)>>]
    @@ <<"Moderate", "7+ Years", "lumpsum_yes">> :>
         [primary |-> "Index / Large Cap MF + ELSS (Lumpsum + SIP)",
          products |-> <<P("Index Funds", 35, Some("Index / Large Cap MF")),
                        P("Large Cap Mutual Funds", 30, None),
                        P("ELSS", 20, Some("ELSS")),
                        P("International Funds", 10, None),
                        P("PPF/ELSS", 5, None)>>]
    @@ <<"Moderate", "7+ Years", "lumpsum_no">> :>
         [primary |-> "SIP in Index / Large Cap MF + ELSS",
          products |-> <<P("Index Fund SIP", 40, Some("Index / Large Cap MF")),
                        P("Large Cap Fund SIP", 30, None),
                        P("ELSS SIP", 25, Some("ELSS")),
                        P("PPF", 5, None)>>]
    @@ <<"Aggressive", "< 3 Years", "lumpsum_yes">> :>
         [primary |-> "FD (Emergency Lumpsum)",
          products |-> <<P("Fixed Deposits", 80, Some("FD")),
                        P("Liquid Plus Funds", 15, None),
                        P("Overnight Funds", 5, None)>>]
    @@ <<"Aggressive", "< 3 Years", "lumpsum_no">> :>
         [primary |-> "FD (SIP)",
          products |-> <<P("Monthly FD", 85, Some("FD")),
                        P("Liquid Fund SIP", 15, None)>>]
    @@ <<"Aggressive", "3-7 Years", "lumpsum_yes">> :>
         [primary |-> "Multi-cap / Flexi-cap MF + ELSS (Lumpsum + SIP)",
          products |-> <<P("Flexi-cap Mutual Funds", 40, Some("Multi-cap / Flexi-cap MF")),
                        P("Multi-cap Mutual Funds", 30, None),
                        P("ELSS", 20, Some("ELSS")),
                        P("Mid & Small Cap Funds", 10, None)>>]
    @@ <<"Aggressive", "3-7 Years", "lumpsum_no">> :>
         [primary |-> "SIP in Flexi-cap / Multi-cap MF + ELSS",
          products |-> <<P("Flexi-cap Fund SIP", 45, Some("Multi-cap / Flexi-cap MF")),
                        P("Multi-cap Fund SIP", 30, None),
                        P("ELSS SIP", 25, Some("ELSS"))>>]
    @@ <<"Aggressive", "7+ Years", "lumpsum_yes">> :>
         [primary |-> "Equity MF + ELSS (Lumpsum + SIP)",
          products |-> <<P("Large Cap Equity Funds", 30, Some("Equity MF")),
                        P("Mid Cap Equity Funds", 25, None),
                        P("Small Cap Equity Funds", 20, None),
                        P("ELSS", 15, Some("ELSS")),
                        P("International Equity Funds", 10, None)>>]
    @@ <<"Aggressive", "7+ Years", "lumpsum_no">> :>
         [primary |-> "SIP in Equity MF + ELSS",
          products |-> <<P("Large Cap Equity SIP", 35, Some("Equity MF")),
                        P("Mid Cap Equity SIP", 30, None),
                        P("ELSS SIP", 20, Some("ELSS")),
                        P("Small Cap SIP", 15, None)>>]

\* fund_database.get(risk_category, {}).get(fund_type, []): name and historical return
F(name, return) == [name |-> name, return |-> return]

fund_database ==
       <<"Conservative", "FD">> :>
         <<F("HDFC Fixed Deposit", "7.00%"),
           F("SBI Fixed Deposit", "7.00%"),
           F("ICICI Fixed Deposit", "7.00%")>>
    @@ <<"Conservative", "Short-term Debt MF">> :>
         <<F("HDFC Short Term Debt Fund", "7.50%"),
           F("ICICI Prudential Short Term Fund", "8.23%")>>
    @@ <<"Conservative", "Conservative Hybrid MF">> :>
         <<F("HDFC Hybrid Debt Fund", "7.00%"),
           F("Aditya Birla Balanced Advantage Fund", "8.00%")>>
    @@ <<"Moderate", "FD">> :>
         <<F("HDFC Fixed Deposit", "7.00%"),
           F("SBI Fixed Deposit", "7.00%"),
           F("ICICI Fixed Deposit", "7.00%")>>
    @@ <<"Moderate", "Arbitrage / Low Duration Debt MF">> :>
         <<F("Nippon India Arbitrage Fund", "6.50%"),
           F("ICICI Prudential Arbitrage Fund", "7.50%"),
           F("HDFC Low Duration Fund", "7.00%")>>
    @@ <<"Moderate", "Balanced Advantage MF">> :>
         <<F("HDFC Balanced Advantage Fund", "8.50%"),
           F("ICICI Prudential Balanced Advantage Fund", "9.00%")>>
    @@ <<"Moderate", "ELSS">> :>
         <<F("Mirae Asset Tax Saver Fund", "12.50%"),
           F("Axis Long Term Equity Fund", "13.00%"),
           F("Aditya Birla Sun Life Tax Relief 96", "13.50%")>>
    @@ <<"Moderate", "Index / Large Cap MF">> :>
         <<F("Nippon India Large Cap Fund", "10.00%"),
           F("HDFC Index Fund - Nifty 50 Plan", "11.00%"),
           F("SBI Bluechip Fund", "12.00%")>>
    @@ <<"Aggressive", "FD">> :>
         <<F("HDFC Fixed Deposit", "7.00%"),
           F("SBI Fixed Deposit", "7.00%"),
           F("ICICI Fixed Deposit", "7.00%")>>
    @@ <<"Aggressive", "ELSS">> :>
         <<F("Mirae Asset Tax Saver Fund", "12.50%"),
           F("Axis Long Term Equity Fund", "13.00%"),
           F("Aditya Birla Sun Life Tax Relief 96", "13.50%")>>
    @@ <<"Aggressive", "Multi-cap / Flexi-cap MF">> :>
         <<F("Parag Parikh Flexi Cap Fund", "12.50%"),
           F("Kotak Standard Multicap Fund", "13.67%"),
           F("Mirae Asset Emerging Bluechip Fund", "14.23%")>>
    @@ <<"Aggressive", "Equity MF">> :>
         <<F("Mirae Asset Large Cap Fund", "12.25%"),
           F("Canara Robeco Equity Diversified Fund", "13.50%"),
           F("Axis Bluechip Fund", "14.65%")>>

Funds(risk_category, fund_type) ==
    IF <<risk_category, fund_type>> \in DOMAIN fund_database
    THEN fund_database[<<risk_category, fund_type>>] ELSE <<>>

\* a product of the matrix with its nested fund list, when it has one
Product(risk_category, p) ==
    [name |-> p.name, allocation |-> p.allocation,
     funds |-> IF IsSome(p.fund_type)
               THEN Some(Funds(risk_category, p.fund_type[1])) ELSE None]

rationale_base ==
       "Conservative" :> "focuses on capital preservation with minimal risk"
    @@ "Moderate" :> "balances growth potential with reasonable safety"
    @@ "Aggressive" :> "prioritizes maximum growth potential with higher risk tolerance"

time_rationale ==
       "< 3 Years" :> "short time horizon requires capital protection and liquidity"
    @@ "3-7 Years" :> "medium time horizon allows for balanced growth with some stability"
    @@ "7+ Years" :> "long time horizon enables equity-focused wealth creation"

lumpsum_rationale ==
       TRUE :> "lumpsum availability enables immediate market participation and SIP for rupee cost averaging"
    @@ FALSE :> "systematic investment through SIPs provides disciplined wealth creation and rupee cost averaging"

\* the phrases the f-string joins
get_investment_rationale(risk_category, time_horizon, lumpsum_available) ==
    <<rationale_base[risk_category], time_rationale[time_horizon],
      lumpsum_rationale[lumpsum_available]>>

NoRecommendations ==
    [status |-> "error", risk_category |-> "", time_horizon |-> "",
     lumpsum_available |-> FALSE, emergency_fund_needed |-> 0,
     suggested_sip_amount |-> 0, suggested_lumpsum_amount |-> 0,
     primary_strategy |-> "", recommended_products |-> <<>>,
     investment_rationale |-> <<>>]

\* monthly_expenses * 6
EmergencyFundNeeded(monthly_expenses) == monthly_expenses * 6

\* mutant: savings equal to the emergency fund count as a lumpsum
LumpsumAvailableAtLeast(total_savings, emergency_fund_needed) ==
    total_savings >= emergency_fund_needed

\* total_savings > emergency_fund_needed
LumpsumAvailable(total_savings, emergency_fund_needed) ==
    total_savings > emergency_fund_needed

\* max(0, total_savings - emergency_fund_needed) * 0.7 if lumpsum_available
\* else 0, in tenths of a currency unit
SuggestedLumpsum(total_savings, emergency_fund_needed, lumpsum_available) ==
    IF lumpsum_available
    THEN Max(0, total_savings - emergency_fund_needed) * 7 ELSE 0

(* The tool.  suggested_sip_amount is in 1/96 of a currency unit            *)
(* (annual_income / 12 * 0.125 = annual_income / 96), suggested_lumpsum_    *)
(* amount in tenths (x * 0.7).  A category or horizon that is no key of     *)
(* the matrix raises KeyError.                                              *)
get_comprehensive_investment_recommendations(st) ==
    LET risk_category == CategoryOf(st)
        age == Field(st, "age", 40)
        goals == Field(st, "financial_goals", <<>>)
        total_savings == Field(st, "total_savings", 0)
        annual_income == Field(st, "annual_income", 0)
        time_horizon == determine_time_horizon(goals, age)
        monthly_expenses == Field(st, "monthly_expenses", 0)
        emergency_fund_needed == EmergencyFundNeeded(monthly_expenses)
        lumpsum_available == LumpsumAvailable(total_savings, emergency_fund_needed)
        lumpsum_key == IF lumpsum_available THEN "lumpsum_yes" ELSE "lumpsum_no"
        cell == <<risk_category, time_horizon, lumpsum_key>>
        recommendations == recommendations_matrix[cell]
        suggested_sip == IF annual_income > 0 THEN annual_income ELSE 5000 * 96
        suggested_lumpsum ==
            SuggestedLumpsum(total_savings, emergency_fund_needed, lumpsum_available)
        result ==
            [status |-> "success",
             risk_category |-> risk_category,
             time_horizon |-> time_horizon,
             lumpsum_available |-> lumpsum_available,
             emergency_fund_needed |-> emergency_fund_needed,
             suggested_sip_amount |-> suggested_sip,
             suggested_lumpsum_amount |-> suggested_lumpsum,
             primary_strategy |-> recommendations.primary,
             recommended_products |->
                 [i \in 1..Len(recommendations.products) |->
                     Product(risk_category, recommendations.products[i])],
             investment_rationale |->
                 get_investment_rationale(risk_category, time_horizon, lumpsum_available)]
    IN  IF cell \notin DOMAIN recommendations_matrix
        THEN [state |-> st, raised |-> TRUE, ret |-> NoRecommendations]
        ELSE [state |-> [st EXCEPT !.comprehensive_recommendations = Some(result)],
              raised |-> FALSE,
              ret |-> result]

-----------------------------------------------------------------------------
(* Report Compiler: generate_risk_report *)

\* f"${x:,.2f}"
Dollars(x) == [currency |-> "$", cents |-> x * 100]

\* what f"{x:,.0f}" prints of an amount given in units of 1/unit
WholeUnits(x, unit) == RoundHalfEven(x, unit)

Step(step, amount, text) == [step |-> step, amount |-> amount, text |-> text]

FixedSteps ==
    <<Step("Review your current investment portfolio compared to the suggested allocation", 0, ""),
      Step("Consider tax implications before making significant changes", 0, ""),
      Step("Consult with a financial advisor for personalized advice", 0, ""),
      Step("Set up automatic contributions to maximize long-term growth", 0, ""),
      Step("Review and adjust your portfolio 1-2 times per year", 0, "")>>

\* list.insert(i, x), i counted from 0
Insert(list, i, x) ==
    LET k == Min(i, Len(list))
    IN  SubSeq(list, 1, k) \o <<x>> \o SubSeq(list, k + 1, Len(list))

\* the next_steps list: the fixed steps with the steps of the comprehensive
\* recommendations inserted at positions 0, 1 and 2
NextSteps(comprehensive) ==
    IF ~IsSome(comprehensive) THEN FixedSteps
    ELSE LET c == comprehensive[1]
             s1 == IF c.suggested_sip_amount > 0
                   THEN Insert(FixedSteps, 0,
                               Step("Start a SIP", WholeUnits(c.suggested_sip_amount, 96), ""))
                   ELSE FixedSteps
             s2 == IF c.suggested_lumpsum_amount > 0
                   THEN Insert(s1, 1,
                               Step("Consider investing as lumpsum",
                                    WholeUnits(c.suggested_lumpsum_amount, 10), ""))
                   ELSE s1
         IN  IF c.primary_strategy # ""
             THEN Insert(s2, 2, Step("Focus on", 0, c.primary_strategy))
             ELSE s2

AgeSpecificAdvice(age) ==
    IF age < 30 THEN "Given your young age"
    ELSE IF age < 45 THEN "In your prime earning years"
    ELSE IF age < 60 THEN "As retirement approaches"
    ELSE "In retirement or near-retirement phase"

\* The tool: the new session state and the returned dict.  A missing value
\* ("Not provided", "N/A", a missing section) is None.
generate_risk_report(st) ==
    LET has == IsSome(st.user_profile)
        profile == st.user_profile[1]
        risk_score == Get(st.risk_score, 5)
        risk_cat == CategoryOf(st)
        risk_factors == IF IsSome(st.risk_category)
                        THEN st.risk_category[1].adjustment_factors ELSE <<>>
        pa == st.portfolio_analysis
        comprehensive_recommendations == st.comprehensive_recommendations
        report ==
            [profile_summary |->
                 [age |-> IF has THEN Some(profile.age) ELSE None,
                  annual_income |->
                      IF has THEN Some(Dollars(profile.annual_income)) ELSE None,
                  monthly_expenses |->
                      IF has THEN Some(Dollars(profile.monthly_expenses)) ELSE None,
                  total_savings |->
                      IF has THEN Some(Dollars(profile.total_savings)) ELSE None,
                  stated_risk_appetite |->
                      IF has THEN Some(profile.risk_appetite) ELSE None,
                  financial_goals |->
                      IF has THEN Some(profile.financial_goals) ELSE None],
             risk_assessment |->
                 [risk_score |-> risk_score,
                  risk_category |-> risk_cat,
                  contributing_factors |-> risk_factors,
                  explanation |-> <<risk_cat, risk_score, risk_factors>>],
             portfolio_analysis |->
                 [diversity_score |->
                      IF IsSome(pa) THEN Some(pa[1].diversity_score) ELSE None,
                  asset_count |-> IF IsSome(pa) THEN pa[1].asset_count ELSE 0,
                  asset_allocation |->
                      IF IsSome(pa) THEN pa[1].asset_allocation ELSE EmptyMap,
                  risk_concentration |->
                      IF IsSome(pa) THEN pa[1].risk_concentration
                      ELSE [text |-> "Unknown", assets |-> <<>>],
                  summary |->
                      IF IsSome(pa) THEN "shows allocation" ELSE "needs diversification"],
             comprehensive_recommendations |-> comprehensive_recommendations,
             recommendations |->
                 [suggested_allocation |->
                      IF IsSome(st.suggested_allocation)
                      THEN Some(st.suggested_allocation[1].main_allocation) ELSE None,
                  equity_breakdown |->
                      IF IsSome(st.suggested_allocation)
                      THEN Some(st.suggested_allocation[1].equity_breakdown) ELSE None,
                  suggested_products |-> st.investment_recommendations],
             age_specific_advice |->
                 IF has THEN Some(AgeSpecificAdvice(profile.age)) ELSE None,
             next_steps |-> NextSteps(comprehensive_recommendations)]
    IN  [state |-> [st EXCEPT !.risk_report = Some(report)],
         raised |-> FALSE,
         ret |-> [status |-> "success", report |-> report]]

-----------------------------------------------------------------------------
(* The pipeline: the root agent runs AssessRiskProfile, a ParallelAgent over *)
(* the three risk sub-agents, then GenerateRecommendations, a                *)
(* SequentialAgent over the three recommendation sub-agents.  Each           *)
(* sub-agent calls its tool once; a tool call is one step.                   *)

AssessAgents == {"score", "analyze", "categorize"}

NoRets ==
    [score |-> None, analyze |-> None, categorize |-> None,
     allocate |-> None, matrix |-> None, report |-> None]

\* the session state with user_profile and investments as given
Session(user_profile, investments) ==
    [user_profile |-> user_profile,
     investments |-> investments,
     risk_score |-> None,
     portfolio_analysis |-> None,
     risk_category |-> None,
     suggested_allocation |-> None,
     investment_recommendations |-> None,
     comprehensive_recommendations |-> None,
     risk_report |-> None,
     current_investment |-> None,
     has_more_assets |-> None,
     investment_collection_complete |-> None,
     investment_collection_confirmed |-> None]

Start(user_profile, investments) ==
    /\ state = Session(user_profile, investments)
    /\ rets = NoRets
    /\ ran = {}
    /\ seen = {}
    /\ pc = "assess"
    /\ last = "none"
    /\ run = "first"
    /\ prev = None
    /\ call = None

\* A tool call of `stage` with outcome r: the state it leaves and the value
\* it returns; an exception ends the run
Call(stage, r, next) ==
    /\ state' = r.state
    /\ rets' = [rets EXCEPT ![stage] = IF r.raised THEN None ELSE Some(r.ret)]
    /\ last' = stage
    /\ pc' = IF r.raised THEN "failed" ELSE next

\* a sub-agent of the ParallelAgent: any of those that have not run yet
Parallel(stage, r) ==
    /\ pc = "assess"
    /\ stage \notin ran
    /\ ran' = ran \cup {stage}
    /\ Call(stage, r, IF ran \cup {stage} = AssessAgents THEN "allocate" ELSE "assess")

RiskScoreCalculator ==
    /\ Parallel("score", calculate_risk_score(state))
    /\ UNCHANGED <<seen, run, prev, call>>

PortfolioAnalyzer ==
    /\ Parallel("analyze", run_portfolio_analysis(state))
    /\ UNCHANGED <<seen, run, prev, call>>

RiskCategorizer ==
    /\ Parallel("categorize", categorize_risk_level(state))
    /\ seen' = ran
    /\ UNCHANGED <<run, prev, call>>

AssetAllocationRecommender ==
    /\ pc = "allocate"
    /\ Call("allocate", suggest_asset_allocation(state), "matrix")
    /\ UNCHANGED <<ran, seen, run, prev, call>>

InvestmentProductRecommender ==
    /\ pc = "matrix"
    /\ Call("matrix", get_comprehensive_investment_recommendations(state), "report")
    /\ UNCHANGED <<ran, seen, run, prev, call>>

RiskReportGenerator ==
    /\ pc = "report"
    /\ Call("report", generate_risk_report(state), "done")
    /\ UNCHANGED <<ran, seen, run, prev, call>>

\* the runner runs the root agent again on the same session
RunAgain ==
    /\ pc = "done"
    /\ run = "first"
    /\ run' = "again"
    /\ prev' = Some([rets |-> rets, state |-> state, seen |-> seen])
    /\ rets' = NoRets
    /\ ran' = {}
    /\ seen' = {}
    /\ pc' = "assess"
    /\ last' = "none"
    /\ UNCHANGED <<state, call>>

-----------------------------------------------------------------------------
(* Investment collection: the tools of collect_investment_data and the two  *)
(* before-agent callbacks of the root SequentialAgent.  The collection      *)
(* agent calls its tools in any order and any number of times per turn; the *)
(* dict under current_investment is {} (no key at all) after an investment  *)
(* has been completed.                                                      *)

EmptyDict == [asset_type |-> None, details |-> None]

\* two of the ASSET_TYPES
SessionAssetTypes == {"Equities (Stocks)", "Fixed Income (Bonds)"}

record_asset_type(asset_type, st) ==
    [state |-> [st EXCEPT
                    !.investments = IF st.investments = None THEN Some(<<>>) ELSE @,
                    !.current_investment =
                        Some([asset_type |-> Some(asset_type),
                              details |-> Some(Details(None, None, None))])],
     ret |-> [status |-> "success", selected_type |-> asset_type]]

record_asset_details(amount, name, st) ==
    IF st.current_investment = None
    THEN [state |-> st, ret |-> [status |-> "error", asset_type |-> "none"]]
    ELSE LET current_investment ==
                 [isDict |-> TRUE,
                  asset_type |-> st.current_investment[1].asset_type,
                  \* current_value defaults to the amount
                  details |-> Some(Details(Some(name), Some(Num(amount)), Some(amount))),
                  amount |-> None]
         IN  [state |-> [st EXCEPT
                             !.investments = Some(Append(Get(@, <<>>), current_investment)),
                             !.current_investment = Some(EmptyDict)],
              ret |-> [status |-> "success",
                       asset_type |-> Get(current_investment.asset_type, "Unspecified")]]

has_more_assets(has_more, st) ==
    LET assets_count == Len(Get(st.investments, <<>>))
        complete == ~has_more /\ assets_count > 0
    IN  [state |-> [st EXCEPT
                        !.has_more_assets = Some(has_more),
                        !.investment_collection_complete = Some(complete),
                        !.investment_collection_confirmed =
                            IF complete THEN Some(TRUE) ELSE @],
         ret |-> [status |-> "success",
                  should_continue |-> has_more,
                  assets_recorded_count |-> assets_count,
                  collection_complete |-> complete,
                  collection_confirmed |-> complete]]

\* mutant: a confirmation is accepted whatever the number of investments
confirm_investment_completion_unchecked(confirmed, st) ==
    LET assets_count == Len(Get(st.investments, <<>>))
    IN  IF confirmed
        THEN [state |-> [st EXCEPT !.investment_collection_complete = Some(TRUE),
                                   !.investment_collection_confirmed = Some(TRUE)],
              ret |-> [status |-> "success", ready_for_risk_analysis |-> TRUE,
                       investment_count |-> assets_count]]
        ELSE [state |-> [st EXCEPT !.investment_collection_complete = Some(FALSE),
                                   !.investment_collection_confirmed = Some(FALSE)],
              ret |-> [status |-> "info", ready_for_risk_analysis |-> FALSE,
                       investment_count |-> assets_count]]

confirm_investment_completion(confirmed, st) ==
    LET assets_count == Len(Get(st.investments, <<>>))
    IN  IF confirmed /\ assets_count > 0
        THEN [state |-> [st EXCEPT !.investment_collection_complete = Some(TRUE),
                                   !.investment_collection_confirmed = Some(TRUE)],
              ret |-> [status |-> "success", ready_for_risk_analysis |-> TRUE,
                       investment_count |-> assets_count]]
        ELSE IF confirmed /\ assets_count = 0
        THEN [state |-> st,
              ret |-> [status |-> "warning", ready_for_risk_analysis |-> FALSE,
                       investment_count |-> 0]]
        ELSE [state |-> [st EXCEPT !.investment_collection_complete = Some(FALSE),
                                   !.investment_collection_confirmed = Some(FALSE)],
              ret |-> [status |-> "info", ready_for_risk_analysis |-> FALSE,
                       investment_count |-> assets_count]]

\* mutant: the callback of the risk assessment never asks anything
check_investment_collection_open(st) == None

\* The callback of AssessRiskProfile: None lets the agent run, a content
\* (here the question it asks) is the agent's whole reply
check_investment_collection(st) ==
    IF ~Get(st.investment_collection_confirmed, FALSE)
    THEN IF Get(st.investments, <<>>) = <<>>
         THEN Some("which investments")
         ELSE Some("any more investments")
    ELSE None

\* mutant: the callback of the recommendations never asks anything
check_risk_assessment_complete_open(st) == None

\* The callback of GenerateRecommendations
check_risk_assessment_complete(st) ==
    IF Get(st.risk_score, 0) = 0 \/ st.risk_category = None
    THEN Some("risk profile first")
    ELSE IF ~Get(st.investment_collection_confirmed, FALSE)
    THEN Some("confirm investments")
    ELSE None

\* a tool call of the collection agent
Collect(tool, flag, r) ==
    /\ pc = "collect"
    /\ state' = r.state
    /\ call' = Some([tool |-> tool, flag |-> flag, status |-> r.ret.status])
    /\ UNCHANGED <<rets, ran, seen, pc, last, run, prev>>

RecordAssetType ==
    \E asset_type \in SessionAssetTypes :
        Collect("record_asset_type", FALSE, record_asset_type(asset_type, state))

RecordAssetDetails ==
    /\ Len(Get(state.investments, <<>>)) < MaxInv
    /\ Collect("record_asset_details", FALSE, record_asset_details(1, "Holding", state))

HasMoreAssets ==
    \E has_more \in BOOLEAN :
        Collect("has_more_assets", has_more, has_more_assets(has_more, state))

ConfirmInvestmentCompletion ==
    \E confirmed \in BOOLEAN :
        Collect("confirm_investment_completion", confirmed,
                confirm_investment_completion(confirmed, state))

\* The collection agent has answered and the SequentialAgent moves on to
\* AssessRiskProfile: its callback lets the three sub-agents run or replies
\* in their place
AssessRiskProfile ==
    /\ pc = "collect"
    /\ pc' = IF check_investment_collection(state) = None THEN "assess" ELSE "allocate"
    /\ call' = None
    /\ UNCHANGED <<state, rets, ran, seen, last, run, prev>>

\* GenerateRecommendations replies in place of its sub-agents
SkipRecommendations ==
    /\ pc = "allocate"
    /\ check_risk_assessment_complete(state) # None
    /\ pc' = "done"
    /\ UNCHANGED <<state, rets, ran, seen, last, run, prev, call>>

\* the first sub-agent of GenerateRecommendations behind the callback
GatedAssetAllocationRecommender ==
    /\ check_risk_assessment_complete(state) = None
    /\ AssetAllocationRecommender

\* the next message of the user: the runner runs the root agent again on
\* the session
NextTurn ==
    /\ pc = "done"
    /\ run = "first"
    /\ run' = "again"
    /\ rets' = NoRets
    /\ ran' = {}
    /\ seen' = {}
    /\ pc' = "collect"
    /\ last' = "none"
    /\ UNCHANGED <<state, prev, call>>

-----------------------------------------------------------------------------
(* Inputs *)

Profile(age, annual_income, monthly_expenses, total_savings, financial_goals, risk_appetite) ==
    [age |-> age, annual_income |-> annual_income,
     monthly_expenses |-> monthly_expenses, total_savings |-> total_savings,
     financial_goals |-> financial_goals, risk_appetite |-> risk_appetite]

\* "Wedding in 2 years"
GoalsWedding ==
    <<"W", "e", "d", "d", "i", "n", "g", " ", "i", "n", " ", "2", " ", "y", "e", "a", "r", "s">>
\* "retirement"
GoalsRetirement == <<"r", "e", "t", "i", "r", "e", "m", "e", "n", "t">>
\* "wealth"
GoalsWealth == <<"w", "e", "a", "l", "t", "h">>

\* all sequences over pool of length at most n
RECURSIVE Lists(_, _)
Lists(pool, n) ==
    IF n = 0 THEN {<<>>}
    ELSE LET shorter == Lists(pool, n - 1)
         IN  shorter \cup {Append(l, e) : l \in shorter, e \in pool}

\* profiles of the pipeline runs: every score band, age band, horizon and
\* both answers on the lumpsum
PipelineProfiles ==
    {Profile(age, 900000, 25000, savings, GoalsWealth, appetite) :
        age \in {25, 65}, savings \in {100000, 400000},
        appetite \in {"conservative", "moderate", "aggressive"}}
    \cup {Profile(45, 0, 0, 0, goals, "moderate") :
            goals \in {GoalsWedding, GoalsRetirement}}

PipelinePool ==
    {Recorded("Equities (Stocks)", "Shares", 1, 1),
     Recorded("Fixed Income (Bonds)", "Bond fund", 1, 1),
     Recorded("Equities (Stocks)", "Growth shares", 3, 5),
     Flat(Some("Gold & Precious Metals"), Some(Null))}

Init ==
    \E user_profile \in PipelineProfiles, investments \in Lists(PipelinePool, MaxInv) :
        Start(Some(user_profile), Some(investments))

Next ==
    \/ RiskScoreCalculator
    \/ PortfolioAnalyzer
    \/ RiskCategorizer
    \/ AssetAllocationRecommender
    \/ InvestmentProductRecommender
    \/ RiskReportGenerator
    \/ RunAgain

Spec == Init /\ [][Next]_vars

-----------------------------------------------------------------------------
(* The Risk Scorer alone, over a wide set of profiles *)

ScenarioA == Profile(25, 600000, 25000, 300000, GoalsRetirement, "conservative")

ScoreProfiles ==
    {Profile(age, income, expenses, savings, GoalsRetirement, appetite) :
        age \in {25, 29, 30, 39, 40, 49, 50, 65},
        income \in {0, 600000, 900000, 1200000, 1500000},
        expenses \in {0, 25000},
        savings \in {0, 150000, 175000, 300000, 325000},
        appetite \in {"conservative", "moderate", "aggressive",
                      "Aggressive", "CONSERVATIVE", "reckless"}}

InitScore ==
    \E user_profile \in {None} \cup {Some(p) : p \in ScoreProfiles} :
        Start(user_profile, None)

SpecScore == InitScore /\ [][RiskScoreCalculator]_vars

-----------------------------------------------------------------------------
(* The Portfolio Analyzer alone, over well-formed and malformed lists *)

AnalyzerPool ==
    {Recorded("Equities (Stocks)", "Shares", 1, 1),
     Recorded("Fixed Income (Bonds)", "Bond fund", 1, 1),
     Recorded("Equities (Stocks)", "Growth shares", 3, 5),
     Recorded("Real Estate", "Flat", 2, 2),
     Flat(Some("Mutual Funds"), Some(Num(2))),
     Flat(Some("Gold & Precious Metals"), Some(NumStr(1))),
     Flat(Some("Cash & Equivalents"), None),
     Flat(None, Some(Num(1))),
     Flat(Some("ETFs"), Some(Null)),
     Flat(Some("ETFs"), Some(Text)),
     NotADict,
     [isDict |-> TRUE, asset_type |-> Some("Cryptocurrencies"),
      details |-> Some(NullDetails), amount |-> Some(Num(1))],
     [isDict |-> TRUE, asset_type |-> Some("Retirement Accounts"),
      details |-> Some(StrDetails), amount |-> Some(Num(1))],
     [isDict |-> TRUE, asset_type |-> None,
      details |-> Some(Details(Some("Pension"), Some(Num(1)), None)), amount |-> None]}

\* n investments of one unit each in n asset types of free-form labels
RECURSIVE Uniform(_)
Uniform(n) ==
    IF n = 0 THEN <<>>
    ELSE Append(Uniform(n - 1), Recorded(ToString(n), "Holding", 1, 1))

\* a single investment of 100000 in one asset type
ScenarioB == <<Recorded("Fixed Income (Bonds)", "Fixed Deposit", 100000, 100000)>>

InitPortfolio ==
    \E investments \in {None, Some(ScenarioB)}
                       \cup {Some(l) : l \in Lists(AnalyzerPool, MaxInv)}
                       \cup {Some(Uniform(n)) : n \in 1..MaxTypes} :
        Start(None, investments)

SpecPortfolio == InitPortfolio /\ [][PortfolioAnalyzer]_vars

-----------------------------------------------------------------------------
(* The Risk Categorizer alone, over every score and portfolio analysis the  *)
(* session state can hold when it is called                                 *)

Concentrations ==
    {[text |-> "balanced", assets |-> <<>>],
     [text |-> "unknown", assets |-> <<>>],
     [text |-> "concentrated in", assets |-> <<"Equities (Stocks)">>]}

Analyses ==
    {[diversity_score |-> d, asset_count |-> 1, unique_asset_types |-> 1,
      asset_allocation |-> EmptyMap, risk_concentration |-> c] :
        d \in 0..10, c \in Concentrations}

InitCategorize ==
    \E risk_score \in {None} \cup {Some(n) : n \in 1..10},
       portfolio_analysis \in {None} \cup {Some(a) : a \in Analyses} :
        /\ state = [Session(None, None) EXCEPT
                        !.risk_score = risk_score,
                        !.portfolio_analysis = portfolio_analysis]
        /\ rets = NoRets
        /\ ran = {}
        /\ seen = {}
        /\ pc = "assess"
        /\ last = "none"
        /\ run = "first"
        /\ prev = None
        /\ call = None

SpecCategorize == InitCategorize /\ [][RiskCategorizer]_vars

-----------------------------------------------------------------------------
(* GenerateRecommendations alone: the three recommendation sub-agents in    *)
(* sequence, over the categories, ages, goals and amounts the session state *)
(* can hold once the risk assessment is complete.  "Balanced" stands for a  *)
(* category outside the three the engine declares.                          *)

Categories == {"Conservative", "Moderate", "Aggressive"}

\* "wedding in 2 years and emergency fund"
GoalsWeddingFund ==
    <<"w", "e", "d", "d", "i", "n", "g", " ", "i", "n", " ", "2", " ", "y", "e", "a", "r",
      "s", " ", "a", "n", "d", " ", "e", "m", "e", "r", "g", "e", "n", "c", "y", " ",
      "f", "u", "n", "d">>
\* "Short-term car and long-term house"
GoalsCarAndHouse ==
    <<"S", "h", "o", "r", "t", "-", "t", "e", "r", "m", " ", "c", "a", "r", " ", "a", "n",
      "d", " ", "l", "o", "n", "g", "-", "t", "e", "r", "m", " ", "h", "o", "u", "s", "e">>
\* "CHILD EDUCATION"
GoalsChildEducation ==
    <<"C", "H", "I", "L", "D", " ", "E", "D", "U", "C", "A", "T", "I", "O", "N">>
\* "Retirement and healthcare"
GoalsRetirementHealthcare ==
    <<"R", "e", "t", "i", "r", "e", "m", "e", "n", "t", " ", "a", "n", "d", " ",
      "h", "e", "a", "l", "t", "h", "c", "a", "r", "e">>

RecommendGoals ==
    {GoalsWedding, GoalsWeddingFund, GoalsRetirement, GoalsWealth, GoalsCarAndHouse,
     GoalsChildEducation, GoalsRetirementHealthcare, <<>>}

RecommendProfiles ==
    {Profile(age, income, expenses, savings, goals, "moderate") :
        age \in {25, 29, 30, 35, 56, 60, 61, 75},
        income \in {0, 600000},
        expenses \in {0, 25000},
        savings \in {0, 150000, 150001, 300000},
        goals \in RecommendGoals}

\* the risk_category the categorizer leaves when no adjustment fired
SeedCategory(category) ==
    [category |-> category,
     base_category |-> category,
     adjustment_factors |-> <<>>]

\* a score of the band of the category
SeedScore(category) ==
    IF category = "Conservative" THEN 2
    ELSE IF category = "Aggressive" THEN 8
    ELSE 5

InitRecommend ==
    \E user_profile \in RecommendProfiles, category \in Categories \cup {"Balanced"} :
        /\ state = [Session(Some(user_profile), Some(<<>>)) EXCEPT
                        !.risk_score = Some(SeedScore(category)),
                        !.risk_category = Some(SeedCategory(category))]
        /\ rets = NoRets
        /\ ran = AssessAgents
        /\ seen = {"score", "analyze"}
        /\ pc = "allocate"
        /\ last = "categorize"
        /\ run = "first"
        /\ prev = None
        /\ call = None

NextRecommend ==
    \/ AssetAllocationRecommender
    \/ InvestmentProductRecommender
    \/ RiskReportGenerator

SpecRecommend == InitRecommend /\ [][NextRecommend]_vars

SessionProfiles ==
    {Profile(45, 900000, 25000, 400000, GoalsWealth, "moderate")}

\* a new session after the profile has been collected
InitSession ==
    \E user_profile \in SessionProfiles :
        /\ state = Session(Some(user_profile), None)
        /\ rets = NoRets
        /\ ran = {}
        /\ seen = {}
        /\ pc = "collect"
        /\ last = "none"
        /\ run = "first"
        /\ prev = None
        /\ call = None

NextSession ==
    \/ RecordAssetType
    \/ RecordAssetDetails
    \/ HasMoreAssets
    \/ ConfirmInvestmentCompletion
    \/ AssessRiskProfile
    \/ RiskScoreCalculator
    \/ PortfolioAnalyzer
    \/ RiskCategorizer
    \/ SkipRecommendations
    \/ GatedAssetAllocationRecommender
    \/ InvestmentProductRecommender
    \/ RiskReportGenerator
    \/ NextTurn

SpecSession == InitSession /\ [][NextSession]_vars

-----------------------------------------------------------------------------
(* Claims *)

\* the sub-agents the categorizer must wait for
Dependencies == {"score", "analyze"}

\* the run's categorizer ran after both of its dependencies
InOrder(seenThen) == Dependencies \subseteq seenThen

Abs(x) == IF x < 0 THEN -x ELSE x

RECURSIVE SumOf(_, _)
SumOf(f, S) ==
    IF S = {} THEN 0
    ELSE LET t == CHOOSE t \in S : TRUE IN f[t] + SumOf(f, S \ {t})

Investments == Get(state.investments, <<>>)

(* C1: in every execution the Risk Categorizer runs only after the Risk     *)
(* Scorer and the Portfolio Analyzer have both committed their results for  *)
(* the current run.                                                         *)
C1_BarrierBeforeCategorizer ==
    "categorize" \in ran => InOrder(seen)

(* C2: for every profile the returned final_score is the sum of the base    *)
(* score and the three factors clamped to [1,10], it is the value stored    *)
(* under risk_score, and the returned category is Conservative iff the      *)
(* score is at most 3, Moderate iff it is 4 to 6, Aggressive otherwise.     *)
C2_Base(self_described_risk) ==
    IF self_described_risk = "conservative" THEN 2
    ELSE IF self_described_risk = "aggressive" THEN 8
    ELSE 5

C2_Raw(r) ==
    C2_Base(r.contributing_factors.self_described_risk)
    + r.contributing_factors.age_factor
    + r.contributing_factors.income_factor
    + r.contributing_factors.savings_factor

C2_ScoreClamped ==
    IsSome(rets.score) =>
        LET r == rets.score[1]
            raw == C2_Raw(r)
        IN  /\ r.risk_score = (IF raw < 1 THEN 1 ELSE IF raw > 10 THEN 10 ELSE raw)
            /\ r.risk_score \in 1..10
            /\ state.risk_score = Some(r.risk_score)
            /\ (r.risk_category = "Conservative") <=> (r.risk_score <= 3)
            /\ (r.risk_category = "Moderate") <=> (r.risk_score \in 4..6)
            /\ (r.risk_category = "Aggressive") <=> (r.risk_score >= 7)

\* a mixed-case appetite whose sum of base and factors exceeds 10 and is clamped
C2_Witness ==
    /\ IsSome(rets.score)
    /\ C2_Raw(rets.score[1]) > 10
    /\ rets.score[1].risk_score = 10
    /\ Field(state, "monthly_expenses", 1) = 25000
    /\ Field(state, "risk_appetite", "") = "Aggressive"

(* C3 as stated: for Scenario A the Risk Scorer yields base 2, age factor   *)
(* 2, income factor 2, savings factor 1, final score 7 and the category     *)
(* Aggressive, reporting self_described_risk "conservative".                *)
C3_ScenarioA_AsStated ==
    (state.user_profile = Some(ScenarioA) /\ IsSome(rets.score)) =>
        LET r == rets.score[1]
        IN  /\ C2_Base(r.contributing_factors.self_described_risk) = 2
            /\ r.contributing_factors.age_factor = 2
            /\ r.contributing_factors.income_factor = 2
            /\ r.contributing_factors.savings_factor = 1
            /\ r.risk_score = 7
            /\ r.risk_category = "Aggressive"
            /\ r.contributing_factors.self_described_risk = "conservative"

(* C3 amended: for Scenario A the Risk Scorer yields base 2, age factor 2,  *)
(* income factor 0 (the ratio 50000/25000 is 2, and int(2 - 2) = 0),        *)
(* savings factor 1, final score 5 and the category Moderate, reporting     *)
(* self_described_risk "conservative".                                      *)
C3_ScenarioA ==
    (state.user_profile = Some(ScenarioA) /\ IsSome(rets.score)) =>
        LET r == rets.score[1]
        IN  /\ C2_Base(r.contributing_factors.self_described_risk) = 2
            /\ r.contributing_factors.age_factor = 2
            /\ r.contributing_factors.income_factor = 0
            /\ r.contributing_factors.savings_factor = 1
            /\ r.risk_score = 5
            /\ r.risk_category = "Moderate"
            /\ r.contributing_factors.self_described_risk = "conservative"

C3_Witness ==
    /\ state.user_profile = Some(ScenarioA)
    /\ IsSome(rets.score)
    /\ state.risk_score = Some(5)

(* C4 as stated: for every non-empty investment list with total value > 0   *)
(* the values of the asset_allocation map sum to 100 within 0.1.            *)
C4_SumWithinTenth ==
    (IsSome(rets.analyze) /\ DOMAIN rets.analyze[1].asset_allocation # {}) =>
        LET a == rets.analyze[1].asset_allocation
        IN  Abs(SumOf(a, DOMAIN a) - 10000) <= 10

(* C4 amended: for every non-empty investment list with total value > 0     *)
(* the values of the asset_allocation map sum to 100 within 0.005 times the *)
(* number of distinct asset types, hence within 0.1 for up to 20 types.     *)
C4_SumWithinRounding ==
    (IsSome(rets.analyze) /\ DOMAIN rets.analyze[1].asset_allocation # {}) =>
        LET a == rets.analyze[1].asset_allocation
            n == Cardinality(DOMAIN a)
            deviation == Abs(SumOf(a, DOMAIN a) - 10000)
        IN  /\ 2 * deviation <= n
            /\ n <= 20 => deviation <= 10

\* 32 equal holdings in 32 asset types: 3.12 each, 99.84 in all
C4_Witness ==
    /\ IsSome(rets.analyze)
    /\ Cardinality(DOMAIN rets.analyze[1].asset_allocation) = 32
    /\ SumOf(rets.analyze[1].asset_allocation,
             DOMAIN rets.analyze[1].asset_allocation) = 9984

\* an entry as the collection flow records it
WellFormed(inv) ==
    /\ inv.isDict
    /\ IsSome(inv.asset_type)
    /\ IsSome(inv.details)
    /\ inv.details[1].kind = "dict"
    /\ IsSome(inv.details[1].amount)
    /\ inv.details[1].amount[1].tag = "num"
    /\ IsSome(inv.details[1].current_value)

AllWellFormed ==
    /\ Investments # <<>>
    /\ \A i \in 1..Len(Investments) : WellFormed(Investments[i])

AmountOf == [i \in 1..Len(Investments) |-> Investments[i].details[1].amount[1].n]
CurrentValueOf == [i \in 1..Len(Investments) |-> Investments[i].details[1].current_value[1]]

\* each type's share, in hundredths of a percent, of the summed val
ShareOf(val) ==
    LET n == Len(Investments)
        types == {Investments[i].asset_type[1] : i \in 1..n}
        total == SumOf(val, 1..n)
    IN  [t \in types |->
            RoundHalfEven(
                SumOf(val, {i \in 1..n : Investments[i].asset_type[1] = t}) * 10000,
                total)]

(* C5 as stated: the allocation map gives each asset type's share of the    *)
(* portfolio's summed current_value.                                        *)
C5_ShareOfCurrentValue ==
    (IsSome(rets.analyze) /\ AllWellFormed) =>
        rets.analyze[1].asset_allocation = ShareOf(CurrentValueOf)

(* C5 amended: the allocation map gives each asset type's share of the      *)
(* portfolio's summed amount; an investment's current_value is not counted, *)
(* also where it differs from the amount.                                   *)
C5_ShareOfAmount ==
    (IsSome(rets.analyze) /\ AllWellFormed) =>
        rets.analyze[1].asset_allocation = ShareOf(AmountOf)

\* an analysed list with a holding whose current_value differs from its amount
C5_Witness ==
    /\ IsSome(rets.analyze)
    /\ AllWellFormed
    /\ \E i \in 1..Len(Investments) : AmountOf[i] # CurrentValueOf[i]
    /\ ShareOf(AmountOf) # ShareOf(CurrentValueOf)

(* C6: run_portfolio_analysis never raises on a malformed investment entry: *)
(* on every non-empty list the call completes with status success.          *)
C6_NeverRaises ==
    (last = "analyze" /\ Investments # <<>>) =>
        /\ pc # "failed"
        /\ IsSome(rets.analyze)
        /\ rets.analyze[1].status = "success"

(* C7: after an engine stage returns, the shared state holds under that     *)
(* stage's key the result this call returned; after the analyzer ran on an  *)
(* empty list, portfolio_analysis is the no_data result.  A result counts   *)
(* as held when the value under the key carries the returned data, with or  *)
(* without the status wrapper around it.                                    *)
C7_Stored(stage) ==
    LET r == rets[stage][1]
    IN  CASE stage = "score" -> state.risk_score = Some(r.risk_score)
          [] stage = "analyze" ->
                /\ IsSome(state.portfolio_analysis)
                /\ state.portfolio_analysis[1].diversity_score = r.diversity_score
                /\ state.portfolio_analysis[1].asset_allocation = r.asset_allocation
                /\ state.portfolio_analysis[1].risk_concentration = r.risk_concentration
          [] stage = "categorize" -> state.risk_category = Some(r)
          [] stage = "allocate" ->
                /\ IsSome(state.suggested_allocation)
                /\ state.suggested_allocation[1].main_allocation = r.main_allocation
                /\ state.suggested_allocation[1].equity_breakdown = r.equity_breakdown
          [] stage = "matrix" -> state.comprehensive_recommendations = Some(r)
          [] stage = "report" -> state.risk_report = Some(r.report)

C7_StateHoldsResult ==
    \A stage \in DOMAIN rets :
        (last = stage /\ IsSome(rets[stage])) => C7_Stored(stage)

(* C8: when the categorizer runs after the scorer and the analyzer, and the *)
(* analyzer's result has diversity_score < 4 (the empty-list result         *)
(* included) with a score band other than Conservative, the categorizer     *)
(* records "low portfolio diversity", and an Aggressive band ends Moderate. *)
C8_LowDiversityRecorded ==
    (InOrder(seen) /\ IsSome(rets.analyze) /\ IsSome(rets.categorize)) =>
        LET a == rets.analyze[1]
            c == rets.categorize[1]
        IN  (a.diversity_score < 4 /\ c.base_category # "Conservative") =>
                /\ \E k \in DOMAIN c.adjustment_factors :
                       c.adjustment_factors[k] = "low portfolio diversity"
                /\ c.base_category = "Aggressive" => c.category = "Moderate"

(* C9: for every risk score and every portfolio analysis the category is at *)
(* most one step below the base category of the score: Aggressive yields    *)
(* Aggressive or Moderate, Moderate yields Moderate, Conservative yields    *)
(* Conservative with no adjustment factors.                                 *)
C9_Band(score) ==
    IF score <= 3 THEN "Conservative"
    ELSE IF score <= 6 THEN "Moderate"
    ELSE "Aggressive"

C9_DowngradeCap ==
    IsSome(rets.categorize) =>
        LET c == rets.categorize[1]
        IN  /\ c.base_category = C9_Band(Get(state.risk_score, 5))
            /\ c.base_category = "Aggressive" => c.category \in {"Aggressive", "Moderate"}
            /\ c.base_category = "Moderate" => c.category = "Moderate"
            /\ c.base_category = "Conservative" =>
                   c.category = "Conservative" /\ c.adjustment_factors = <<>>

\* an Aggressive base on which both adjustments fired
C9_Witness ==
    /\ IsSome(rets.categorize)
    /\ rets.categorize[1].base_category = "Aggressive"
    /\ rets.categorize[1].adjustment_factors =
           <<"low portfolio diversity", "high concentration risk">>
    /\ rets.categorize[1].category = "Moderate"

(* C10: with user_profile and investments unchanged, a second run of all    *)
(* stages in the required order on the state the first run left returns the *)
(* same results and leaves the same values under every key.                 *)
C10_Idempotent ==
    (run = "again" /\ pc = "done" /\ InOrder(seen) /\ InOrder(prev[1].seen)) =>
        /\ rets = prev[1].rets
        /\ state = prev[1].state

\* a second run with adjustment factors, completed in the required order
C10_Witness ==
    /\ run = "again"
    /\ pc = "done"
    /\ InOrder(seen)
    /\ InOrder(prev[1].seen)
    /\ rets.categorize[1].adjustment_factors # <<>>
    /\ IsSome(state.risk_report)

(* C11: for every profile emergency_fund_needed is 6 times the monthly      *)
(* expenses, lumpsum_available is true exactly when total_savings is        *)
(* strictly above it, and suggested_lumpsum_amount is 0.7 times the excess  *)
(* when lumpsum_available and 0 otherwise, never negative (Scenario C:      *)
(* expenses 25000 and savings 300000 give 150000, true, 105000).            *)
C11_Lumpsum ==
    IsSome(rets.matrix) =>
        LET r == rets.matrix[1]
            expenses == state.user_profile[1].monthly_expenses
            savings == state.user_profile[1].total_savings
        IN  /\ r.emergency_fund_needed = 6 * expenses
            /\ r.lumpsum_available <=> (savings > r.emergency_fund_needed)
            /\ r.lumpsum_available =>
                   r.suggested_lumpsum_amount = 7 * (savings - r.emergency_fund_needed)
            /\ ~r.lumpsum_available => r.suggested_lumpsum_amount = 0
            /\ r.suggested_lumpsum_amount >= 0
            /\ (expenses = 25000 /\ savings = 300000) =>
                   /\ r.emergency_fund_needed = 150000
                   /\ r.lumpsum_available
                   /\ r.suggested_lumpsum_amount = 1050000

\* Scenario C
C11_Witness ==
    /\ IsSome(rets.matrix)
    /\ state.user_profile[1].monthly_expenses = 25000
    /\ state.user_profile[1].total_savings = 300000
    /\ rets.matrix[1].suggested_lumpsum_amount = 1050000

\* the goals of the profile in the session
Goals == state.user_profile[1].financial_goals

\* the goals texts that contain "wedding in 2 years", in any case
WeddingGoals == {GoalsWedding, GoalsWeddingFund}

WithShortTerm ==
    {GoalsWedding, GoalsWeddingFund, GoalsCarAndHouse, GoalsRetirementHealthcare}
WithLongTerm ==
    {GoalsRetirement, GoalsCarAndHouse, GoalsChildEducation, GoalsRetirementHealthcare}

TotalAllocation(products) ==
    SumOf([i \in DOMAIN products |-> products[i].allocation], DOMAIN products)

\* no nested fund list of the product list has more than 3 funds
AtMostThreeFunds(products) ==
    \A i \in DOMAIN products :
        IsSome(products[i].funds) => Len(products[i].funds[1]) <= 3

(* C14: the decision matrix has the 18 cells category x horizon x lumpsum;  *)
(* in every cell the allocation percentages of the product list sum to 100  *)
(* and every nested fund list has at most 3 funds; so has every product     *)
(* list the engine returns.                                                 *)
C14_MatrixCells ==
    /\ DOMAIN recommendations_matrix =
           Categories \X {"< 3 Years", "3-7 Years", "7+ Years"}
                      \X {"lumpsum_yes", "lumpsum_no"}
    /\ \A cell \in DOMAIN recommendations_matrix :
           LET products == [i \in DOMAIN recommendations_matrix[cell].products |->
                               Product(cell[1], recommendations_matrix[cell].products[i])]
           IN  /\ products # <<>>
               /\ TotalAllocation(products) = 100
               /\ AtMostThreeFunds(products)
    /\ IsSome(rets.matrix) =>
           /\ TotalAllocation(rets.matrix[1].recommended_products) = 100
           /\ AtMostThreeFunds(rets.matrix[1].recommended_products)

\* a returned cell of four products, one of them with a list of three funds
C14_Witness ==
    /\ IsSome(rets.matrix)
    /\ Len(rets.matrix[1].recommended_products) = 4
    /\ \E i \in DOMAIN rets.matrix[1].recommended_products :
           /\ IsSome(rets.matrix[1].recommended_products[i].funds)
           /\ Len(rets.matrix[1].recommended_products[i].funds[1]) = 3
    /\ TotalAllocation(rets.matrix[1].recommended_products) = 100

(* C15: a stage that looks up a table by risk category (the Allocation      *)
(* Recommender, the Decision Matrix Engine) ends in a fatal error and       *)
(* writes nothing when the category in the state is none of Conservative,   *)
(* Moderate, Aggressive; no default row stands in for it.                   *)
C15_UnknownCategoryFatal ==
    (IsSome(state.risk_category) /\ state.risk_category[1].category \notin Categories) =>
        /\ last = "allocate" =>
               /\ pc = "failed"
               /\ rets.allocate = None
               /\ state.suggested_allocation = None
        /\ last = "matrix" =>
               /\ pc = "failed"
               /\ rets.matrix = None
               /\ state.comprehensive_recommendations = None

\* what each step of a next_steps list says, without amounts and strategy
StepNames(steps) == [i \in DOMAIN steps |-> steps[i].step]

(* C16: in every report next_steps is the inserted steps that apply, in the *)
(* order SIP step, lumpsum step, strategy-focus step, followed by the 5     *)
(* fixed steps in their order; no fixed step precedes an inserted step.     *)
C16_InsertedStepsFirst ==
    (IsSome(rets.report) /\ IsSome(state.comprehensive_recommendations)) =>
        LET c == state.comprehensive_recommendations[1]
            inserted ==
                (IF c.suggested_sip_amount > 0 THEN <<"Start a SIP">> ELSE <<>>)
                \o (IF c.suggested_lumpsum_amount > 0
                    THEN <<"Consider investing as lumpsum">> ELSE <<>>)
                \o (IF c.primary_strategy # "" THEN <<"Focus on">> ELSE <<>>)
        IN  StepNames(rets.report[1].report.next_steps)
                = inserted \o StepNames(FixedSteps)

\* the category and the age the Allocation Recommender read
Category == state.risk_category[1].category
Age == state.user_profile[1].age

(* C17: for every category of Conservative, Moderate, Aggressive and every  *)
(* age the four main_allocation percentages are each non-negative and sum   *)
(* to 100, and Alternative Investments is 5 (percentages in tenths).        *)
C17_MainAllocationSum ==
    (IsSome(rets.allocate) /\ Category \in Categories) =>
        LET m == rets.allocate[1].main_allocation
        IN  /\ m.Equities >= 0
            /\ m.FixedIncome >= 0
            /\ m.Cash >= 0
            /\ m.AlternativeInvestments = 50
            /\ m.Equities + m.FixedIncome + m.Cash + m.AlternativeInvestments = 1000

\* an Aggressive plan adjusted for an age above 60
C17_Witness ==
    /\ IsSome(rets.allocate)
    /\ Category = "Aggressive"
    /\ Age = 75
    /\ rets.allocate[1].main_allocation.Equities = 560
    /\ rets.allocate[1].main_allocation.FixedIncome = 298

\* the base table: Equities, Fixed Income, Cash, in tenths of a percent
BaseRow(category) ==
    IF category = "Conservative" THEN <<300, 500, 150>>
    ELSE IF category = "Moderate" THEN <<500, 350, 100>>
    ELSE <<700, 200, 50>>

(* C18: for ages 30 through 60 main_allocation is the base row of the       *)
(* category; above 60 Equities is reduced by min(15, 0.2 x Equities), 70%   *)
(* of the shift added to Fixed Income and 30% to Cash; below 30 Fixed       *)
(* Income is reduced by min(10, 0.2 x Fixed Income) and Equities increased  *)
(* by as much.                                                              *)
C18_AgeAdjustment ==
    (IsSome(rets.allocate) /\ Category \in Categories) =>
        LET m == rets.allocate[1].main_allocation
            row == BaseRow(Category)
            equity_shift == IF 2 * row[1] < 1500 THEN (2 * row[1]) \div 10 ELSE 150
            fi_shift == IF 2 * row[2] < 1000 THEN (2 * row[2]) \div 10 ELSE 100
        IN  /\ Age \in 30..60 =>
                   <<m.Equities, m.FixedIncome, m.Cash>> = row
            /\ Age > 60 =>
                   /\ m.Equities = row[1] - equity_shift
                   /\ 10 * m.FixedIncome = 10 * row[2] + 7 * equity_shift
                   /\ 10 * m.Cash = 10 * row[3] + 3 * equity_shift
            /\ Age < 30 =>
                   /\ m.FixedIncome = row[2] - fi_shift
                   /\ m.Equities = row[1] + fi_shift
                   /\ m.Cash = row[3]

\* the plans at the ages 30 and 60, both unadjusted
C18_Witness ==
    /\ IsSome(rets.allocate)
    /\ Category = "Conservative"
    /\ Age \in {30, 60}
    /\ rets.allocate[1].main_allocation.Equities = 300

\* the asset types of a list of well-formed entries
TypesOf(investments) ==
    {investments[i].asset_type[1] : i \in DOMAIN investments}

(* C19: for every non-empty investment list diversity_score is min(10, 2 x  *)
(* number of distinct asset types), hence in 0..10, and asset_count is the  *)
(* number of entries; when all entries share one asset type and the total   *)
(* is positive (Scenario B), diversity_score is 2, the type's allocation is *)
(* 100.0 and risk_concentration is "concentrated in <type>".                *)
C19_Diversity ==
    (IsSome(rets.analyze) /\ rets.analyze[1].status = "success") =>
        LET r == rets.analyze[1]
            n == r.unique_asset_types
        IN  /\ r.diversity_score = (IF 2 * n > 10 THEN 10 ELSE 2 * n)
            /\ r.diversity_score \in 0..10
            /\ r.asset_count = Len(Investments)
            /\ AllWellFormed =>
                   /\ n = Cardinality(TypesOf(Investments))
                   /\ \A t \in TypesOf(Investments) :
                          TypesOf(Investments) = {t} =>
                              /\ r.diversity_score = 2
                              /\ r.asset_allocation = (t :> 10000)
                              /\ r.risk_concentration =
                                     [text |-> "concentrated in", assets |-> <<t>>]

\* Scenario B
C19_Witness ==
    /\ IsSome(rets.analyze)
    /\ Investments = ScenarioB
    /\ rets.analyze[1].diversity_score = 2
    /\ rets.analyze[1].asset_allocation = ("Fixed Income (Bonds)" :> 10000)

\* the stage has returned in this run and its result is in the state
Written(stage) == IsSome(rets[stage]) /\ C7_Stored(stage)

(* C20: in every run the Allocation Recommender and the Decision Matrix     *)
(* Engine execute only after the Risk Categorizer has written               *)
(* risk_category, and the Report Compiler executes only after the scorer,   *)
(* the analyzer, the categorizer, the allocation recommender and the        *)
(* decision matrix engine have all written their results for that run.      *)
C20_StagesInOrder ==
    /\ IsSome(rets.allocate) => Written("categorize")
    /\ IsSome(rets.matrix) => Written("categorize")
    /\ IsSome(rets.report) =>
           \A stage \in {"score", "analyze", "categorize", "allocate", "matrix"} :
               Written(stage)

\* a second run on the session, all of whose stages have written before the
\* report was compiled
C20_Witness ==
    /\ run = "again"
    /\ pc = "done"
    /\ IsSome(rets.report)
    /\ \A stage \in DOMAIN rets : Written(stage)

(* C21: no engine stage modifies user_profile or investments: after any     *)
(* sequence of engine stages, over one run or two, both are what they were  *)
(* before the first stage ran.                                              *)
C21_ProfileAndInvestmentsKept ==
    [][/\ state'.user_profile = state.user_profile
       /\ state'.investments = state.investments]_vars

\* all six stages have run twice over a non-empty list
C21_Witness ==
    /\ pc = "done"
    /\ run = "again"
    /\ Investments # <<>>
    /\ \A stage \in DOMAIN rets : IsSome(rets[stage])
    /\ IsSome(state.risk_report)

\* the profile of the session, and the result of the scorer on the same
\* profile with other savings
C22_Profile == state.user_profile[1]

C22_WithSavings(total_savings) ==
    calculate_risk_score(
        [state EXCEPT !.user_profile =
            Some([C22_Profile EXCEPT !.total_savings = total_savings])]).ret

C22_Savings == {0, 149999, 150000, 150001, 175000, 300000, 300001, 325000}

(* C22: for monthly_expenses > 0 the savings factor is 0 up to 6 months of  *)
(* expenses saved, 1 above 6 and up to 12 months, 2 above 12 months; it is   *)
(* non-decreasing in total_savings, and with all other profile fields fixed  *)
(* the final score never decreases when total_savings increases.             *)
C22_SavingsMonotone ==
    (IsSome(rets.score) /\ IsSome(state.user_profile)
        /\ C22_Profile.monthly_expenses > 0) =>
        LET r == rets.score[1]
            savings == C22_Profile.total_savings
            expenses == C22_Profile.monthly_expenses
        IN  /\ r.contributing_factors.savings_factor =
                   (IF savings <= 6 * expenses THEN 0
                    ELSE IF savings <= 12 * expenses THEN 1 ELSE 2)
            /\ \A more \in C22_Savings :
                   more >= savings =>
                       /\ C22_WithSavings(more).contributing_factors.savings_factor
                              >= r.contributing_factors.savings_factor
                       /\ C22_WithSavings(more).risk_score >= r.risk_score

\* exactly 6 months saved score 0 and one month more raises the score;
\* exactly 12 months score 1 and 13 months score 2
C22_Witness ==
    /\ IsSome(rets.score)
    /\ IsSome(state.user_profile)
    /\ C22_Profile.monthly_expenses = 25000
    /\ C22_Profile.total_savings = 150000
    /\ rets.score[1].contributing_factors.savings_factor = 0
    /\ C22_WithSavings(175000).risk_score = rets.score[1].risk_score + 1
    /\ C22_WithSavings(300000).contributing_factors.savings_factor = 1
    /\ C22_WithSavings(325000).risk_score = rets.score[1].risk_score + 2

\* the values of a table
C23_Phrases(table) == {table[k] : k \in DOMAIN table}

(* C23: the decision matrix is total: for every category of Conservative,   *)
(* Moderate, Aggressive, every goals text and age and both values of        *)
(* lumpsum_available the matrix tool finds a cell without error and returns *)
(* a non-empty primary_strategy, a non-empty product list and a rationale   *)
(* built from the three phrase tables.                                       *)
C23_MatrixTotal ==
    /\ \A category \in Categories, lumpsum_key \in {"lumpsum_yes", "lumpsum_no"} :
           <<category,
             determine_time_horizon(state.user_profile[1].financial_goals, Age),
             lumpsum_key>> \in DOMAIN recommendations_matrix
    /\ (last = "matrix" /\ Category \in Categories) =>
           /\ pc # "failed"
           /\ IsSome(rets.matrix)
           /\ LET r == rets.matrix[1]
              IN  /\ r.status = "success"
                  /\ r.primary_strategy # ""
                  /\ r.recommended_products # <<>>
                  /\ Len(r.investment_rationale) = 3
                  /\ r.investment_rationale[1] = rationale_base[Category]
                  /\ r.investment_rationale[2] \in C23_Phrases(time_rationale)
                  /\ r.investment_rationale[3] =
                         lumpsum_rationale[r.lumpsum_available]
                  /\ state.comprehensive_recommendations = Some(r)

\* a short horizon without a lumpsum, and a long one with a lumpsum
C23_Witness ==
    /\ last = "matrix"
    /\ IsSome(rets.matrix)
    /\ Category = "Aggressive"
    /\ \/ /\ rets.matrix[1].time_horizon = "< 3 Years"
          /\ ~rets.matrix[1].lumpsum_available
       \/ /\ rets.matrix[1].time_horizon = "7+ Years"
          /\ rets.matrix[1].lumpsum_available
    /\ rets.matrix[1].recommended_products # <<>>

(* C29: for every investment list (all amounts are non-negative)            *)
(* risk_concentration names at most one asset type; it names a type exactly *)
(* when the type's rounded allocation is strictly greater than 50, so that  *)
(* a 50/50 split is "balanced"; and it is "balanced" whenever the total     *)
(* value is 0.                                                               *)
C29_Concentration ==
    (IsSome(rets.analyze) /\ rets.analyze[1].status = "success") =>
        LET r == rets.analyze[1]
            assets == r.risk_concentration.assets
            named == {assets[i] : i \in DOMAIN assets}
        IN  /\ Len(assets) <= 1
            /\ named \subseteq DOMAIN r.asset_allocation
            /\ \A t \in DOMAIN r.asset_allocation :
                   (t \in named) <=> (r.asset_allocation[t] > 5000)
            /\ r.risk_concentration.text =
                   (IF assets = <<>> THEN "balanced" ELSE "concentrated in")
            /\ Tally(Investments).total_value = 0 =>
                   r.risk_concentration = [text |-> "balanced", assets |-> <<>>]

\* a 50/50 split over two asset types, reported as balanced
C29_Witness ==
    /\ IsSome(rets.analyze)
    /\ rets.analyze[1].status = "success"
    /\ rets.analyze[1].asset_allocation =
           ("Equities (Stocks)" :> 5000 @@ "Fixed Income (Bonds)" :> 5000)
    /\ rets.analyze[1].risk_concentration.text = "balanced"

(* C30: the age_adjusted flag returned by suggest_asset_allocation is true  *)
(* exactly when the returned main_allocation differs from the base table    *)
(* row of the category, that is exactly when age > 60 or age < 30.          *)
C30_AgeAdjustedFlag ==
    (IsSome(rets.allocate) /\ Category \in Categories) =>
        LET r == rets.allocate[1]
            m == r.main_allocation
        IN  /\ r.age_adjusted <=> (<<m.Equities, m.FixedIncome, m.Cash>> # BaseRow(Category))
            /\ r.age_adjusted <=> (Age > 60 \/ Age < 30)

\* investment_collection_confirmed as the callbacks read it
Confirmed == Get(state.investment_collection_confirmed, FALSE)

EngineKeys ==
    <<state.risk_score, state.portfolio_analysis, state.risk_category,
      state.suggested_allocation, state.comprehensive_recommendations,
      state.risk_report>>

RecommendationKeys ==
    <<state.suggested_allocation, state.comprehensive_recommendations,
      state.risk_report>>

(* C24: while investment_collection_confirmed is false no engine stage runs *)
(* and none of the engine keys is written: both callbacks skip their stage  *)
(* until the flag is true; and while risk_score or risk_category is         *)
(* missing, the recommendation stage does not run.                          *)
C24_GatedEngine ==
    [][/\ ~Confirmed =>
              /\ EngineKeys' = EngineKeys
              /\ rets' \in {rets, NoRets}
              /\ pc' \notin {"assess", "matrix", "report"}
       /\ (state.risk_score = None \/ state.risk_category = None) =>
              /\ RecommendationKeys' = RecommendationKeys
              /\ \A stage \in {"allocate", "matrix", "report"} :
                     rets'[stage] = rets[stage]
              /\ pc' \notin {"matrix", "report"}]_vars

\* a second turn in which the confirmation was withdrawn: the keys of the
\* first turn are in the state and both stages have been skipped
C24_Witness ==
    /\ run = "again"
    /\ pc = "done"
    /\ ~Confirmed
    /\ Investments # <<>>
    /\ rets = NoRets
    /\ IsSome(state.risk_score)
    /\ IsSome(state.risk_report)

\* investment_collection_complete, false while the key is absent
Complete == Get(state.investment_collection_complete, FALSE)

\* the last collection call was `tool` with the boolean argument `flag`
Called(tool, flag) ==
    /\ IsSome(call)
    /\ call[1].tool = tool
    /\ call[1].flag = flag

(* C25: in every state reachable by calls of the four collection tools,     *)
(* investment_collection_confirmed = true implies that the investments list *)
(* holds at least one investment; a confirmation given with zero            *)
(* investments returns a warning and sets neither flag.                     *)
C25_ConfirmedHasInvestments ==
    /\ Confirmed => Len(Investments) >= 1
    /\ Called("confirm_investment_completion", TRUE) =>
           /\ (call[1].status = "warning") <=> (Investments = <<>>)
           /\ Investments = <<>> => (~Confirmed /\ ~Complete)

\* a confirmation before anything was recorded
C25_Witness ==
    /\ Called("confirm_investment_completion", TRUE)
    /\ call[1].status = "warning"
    /\ Investments = <<>>
    /\ ~Confirmed
    /\ ~Complete

(* C26: investment_collection_confirmed changes from false to true only in  *)
(* a confirm_investment_completion(confirmed=true) call, so that after any  *)
(* sequence of collection calls without such a call the flag is false and   *)
(* the callback of the risk assessment skips the stage.                     *)
C26_ConfirmedOnlyByConfirmation ==
    [][(~Confirmed /\ Confirmed') =>
           /\ IsSome(call')
           /\ call'[1].tool = "confirm_investment_completion"
           /\ call'[1].flag]_vars

\* an asset type has been recorded since the last completed investment
C27_TypeRecorded ==
    /\ IsSome(state.current_investment)
    /\ IsSome(state.current_investment[1].asset_type)

\* the step is a call of record_asset_details
C27_DetailsCall ==
    /\ pc = "collect"
    /\ IsSome(call')
    /\ call'[1].tool = "record_asset_details"
    /\ (call' # call \/ state' # state)

(* C27: record_asset_details appends an investment only when an asset type  *)
(* has been recorded since the last completed investment, and returns       *)
(* status "error" and leaves the list unchanged otherwise; every entry of   *)
(* investments carries the asset_type recorded for it, and the list grows   *)
(* by one with each successful call and with nothing else.                  *)
C27_DetailsNeedType ==
    [][/\ C27_DetailsCall =>
              IF C27_TypeRecorded
              THEN /\ call'[1].status = "success"
                   /\ Len(Investments') = Len(Investments) + 1
                   /\ SubSeq(Investments', 1, Len(Investments)) = Investments
                   /\ Investments'[Len(Investments')].asset_type =
                          state.current_investment[1].asset_type
              ELSE /\ call'[1].status = "error"
                   /\ Investments' = Investments
       /\ ~C27_DetailsCall => Investments' = Investments
       /\ \A i \in DOMAIN Investments' : IsSome(Investments'[i].asset_type)]_vars

(* C28: after has_more_assets(has_more=true) both                           *)
(* investment_collection_complete and investment_collection_confirmed are   *)
(* false; in every reachable state investment_collection_confirmed implies  *)
(* investment_collection_complete, and after reopening the collection the   *)
(* callback of the risk assessment skips the stage until a new              *)
(* confirmation.                                                            *)
C28_ReopenResetsConfirmation ==
    /\ Called("has_more_assets", TRUE) =>
           /\ ~Complete
           /\ ~Confirmed
           /\ check_investment_collection(state) # None
    /\ Confirmed => Complete

====
